---- MODULE Spec2Model ----
(***************************************************************************)
(* Model of rubrik/cluster.py: the Cluster resource client.  One caller    *)
(* drives one client object through a sequence of calls.  A call runs up   *)
(* to its next request to the API transport (get, post, object_id), the    *)
(* transport answers or raises, and the call goes on from there.           *)
(* sys.exit ends the process.                                              *)
(***************************************************************************)
EXTENDS Integers, Sequences, FiniteSets, TLC

VARIABLES
    pc,        \* "idle", "done", "exited", or the source line of the pending transport request
    call,      \* the operation called and its arguments as passed
    trace,     \* the transport requests issued by that call, in order
    ret,       \* the value that call returned
    outcome,   \* "none", "running", "returned", "raised" or "exited"
    exit_msg,  \* the message given to sys.exit
    api_request, \* the local api_request: the transport's answer
    vm_id,     \* end_user_authorization's local vm_id
    stdout     \* the last value printed

vars == <<pc, call, trace, ret, outcome, exit_msg, api_request, vm_id, stdout>>

(***************************************************************************)
(* Bounds of the model.                                                    *)
(***************************************************************************)
MaxNodes == 2      \* entries of node_config, and of a node list response
MaxLen == 1        \* length of a dns_search_domains / dns_nameservers / ntp_servers list

(***************************************************************************)
(* Python values, tagged with their type.                                  *)
(***************************************************************************)
Omitted == [t |-> "omitted"]
None == [t |-> "None"]
PyStr(s) == [t |-> "str", v |-> s]
PyInt(n) == [t |-> "int", v |-> n]
PyBool(b) == [t |-> "bool", v |-> b]
PyList(s) == [t |-> "list", v |-> s]
\* a dict is the sequence of its <<key, value>> items in insertion order
PyDict(items) == [t |-> "dict", v |-> items]
\* a decoded transport response
Json(d) == [t |-> "json", v |-> d]

\* a keyword parameter takes its default when the caller omits it
Param(arg, default) == IF arg.t = "omitted" THEN default ELSE arg

DictKeys(d) == {d[i][1] : i \in DOMAIN d}

DictGet(d, k) == d[CHOOSE i \in DOMAIN d : d[i][1] = k][2]

\* d[k] = v
DictSet(d, k, v) ==
    IF k \in DictKeys(d)
    THEN [i \in DOMAIN d |-> IF d[i][1] = k THEN <<k, v>> ELSE d[i]]
    ELSE Append(d, <<k, v>>)

Digit(d) ==
    CASE d = 0 -> "0" [] d = 1 -> "1" [] d = 2 -> "2" [] d = 3 -> "3" [] d = 4 -> "4"
      [] d = 5 -> "5" [] d = 6 -> "6" [] d = 7 -> "7" [] d = 8 -> "8" [] d = 9 -> "9"

RECURSIVE IntToStr(_)
IntToStr(n) == IF n < 10 THEN Digit(n) ELSE IntToStr(n \div 10) \o Digit(n % 10)

\* '{!r}'.format(v): a string comes out in quotes
FormatRepr(v) ==
    CASE v.t = "str" -> "'" \o v.v \o "'"
      [] v.t = "int" -> IntToStr(v.v)
      [] v.t = "bool" -> (IF v.v THEN "True" ELSE "False")
      [] v.t = "None" -> "None"

\* '{}'.format(v)
Format(v) ==
    CASE v.t = "str" -> v.v
      [] v.t = "int" -> IntToStr(v.v)
      [] v.t = "bool" -> (IF v.v THEN "True" ELSE "False")
      [] v.t = "None" -> "None"

(***************************************************************************)
(* Requests to the API transport, as the client passes them.               *)
(***************************************************************************)
Get(api_version, endpoint, timeout, authentication) ==
    [method |-> "get", api_version |-> api_version, endpoint |-> endpoint,
     timeout |-> timeout, authentication |-> authentication]

Post(api_version, endpoint, config, timeout, authentication) ==
    [method |-> "post", api_version |-> api_version, endpoint |-> endpoint,
     config |-> config, timeout |-> timeout, authentication |-> authentication]

ObjectId(object_name, object_type) ==
    [method |-> "object_id", object_name |-> object_name, object_type |-> object_type]

(***************************************************************************)
(* The values the caller and the transport draw from.                      *)
(***************************************************************************)
Timeouts == {Omitted, PyInt(30)}

AllNodeNames == <<"RVM01", "RVM02", "RVM03", "RVM04">>
NodeNames == {AllNodeNames[i] : i \in 1..MaxNodes}
NodeIps == {"10.0.0.1", "10.0.0.2"}

SeqsUpTo(S, n) == UNION {[1..k -> S] : k \in 0..n}

\* dicts of node name -> IP address: item sequences with distinct keys
NodeDicts ==
    {PyDict(items) : items \in
        {s \in SeqsUpTo(NodeNames \X NodeIps, MaxNodes) :
            \A i, j \in DOMAIN s : i # j => s[i][1] # s[j][1]}}

NodeConfigArgs == {Omitted, None, PyStr("RVM01=10.0.0.1")} \cup NodeDicts

\* a list argument: left out, a list, or a bare string in place of the list
ListArgs(S) ==
    {Omitted} \cup {PyList(s) : s \in SeqsUpTo(S, MaxLen)} \cup {PyStr(x) : x \in S}

\* the JSON the transport may answer with
Responses == {Json([version |-> "4.1.0"]), Json([message |-> "Incorrect username/password"])}

Init ==
    /\ pc = "idle"
    /\ call = [op |-> "none"]
    /\ trace = <<>>
    /\ ret = Omitted
    /\ outcome = "none"
    /\ exit_msg = ""
    /\ api_request = Omitted
    /\ vm_id = Omitted
    /\ stdout = Omitted

\* the caller calls op(args)
Begin(op, args) ==
    /\ call' = [op |-> op, args |-> args]
    /\ UNCHANGED <<ret, api_request, vm_id>>

\* sys.exit(msg)
Exit(msg) ==
    /\ pc' = "exited"
    /\ outcome' = "exited"
    /\ exit_msg' = msg
    /\ UNCHANGED <<trace, stdout>>

\* the call issues its first transport request and waits at that line
Request(line, req) ==
    /\ pc' = line
    /\ outcome' = "running"
    /\ trace' = <<req>>
    /\ UNCHANGED <<exit_msg, stdout>>

\* return value
Return(value) ==
    /\ pc' = "done"
    /\ outcome' = "returned"
    /\ ret' = value

(***************************************************************************)
(* cluster_version                                                         *)
(***************************************************************************)
cluster_version ==
    /\ pc = "idle"
    /\ \E timeout \in Timeouts :
        /\ Begin("cluster_version", [timeout |-> timeout])
        /\ Request("cluster_version_38",
                   Get("v1", "/cluster/me/version", Param(timeout, PyInt(15)), Omitted))

cluster_version_return ==
    /\ pc = "cluster_version_38"
    /\ api_request' \in Responses
    /\ Return(api_request')
    /\ UNCHANGED <<call, trace, exit_msg, vm_id, stdout>>

(***************************************************************************)
(* cluster_node_ip                                                         *)
(***************************************************************************)
\* an entry of the node list, with or without its ipAddress
NodeEntries == {[ipAddress |-> ip] : ip \in NodeIps} \cup {[hostname |-> "RVM01"]}

NodeResponses == {Json([data |-> s]) : s \in SeqsUpTo(NodeEntries, MaxNodes)} \cup Responses

\* node["ipAddress"] is there for every node of api_request['data']
HasNodeIps(response) ==
    /\ "data" \in DOMAIN response.v
    /\ \A i \in DOMAIN response.v.data : "ipAddress" \in DOMAIN response.v.data[i]

\* node_ip_list.insert(0, ...) in place of append
RECURSIVE NodeIpListPrepend(_, _)
NodeIpListPrepend(data, node_ip_list) ==
    IF data = <<>>
    THEN node_ip_list
    ELSE NodeIpListPrepend(Tail(data), <<Head(data).ipAddress>> \o node_ip_list)

\* for node in data: node_ip_list.append(node["ipAddress"])
RECURSIVE NodeIpList(_, _)
NodeIpList(data, node_ip_list) ==
    IF data = <<>>
    THEN node_ip_list
    ELSE NodeIpList(Tail(data), Append(node_ip_list, Head(data).ipAddress))

cluster_node_ip ==
    /\ pc = "idle"
    /\ \E timeout \in Timeouts :
        /\ Begin("cluster_node_ip", [timeout |-> timeout])
        /\ Request("cluster_node_ip_52",
                   Get("internal", "/cluster/me/node", Param(timeout, PyInt(15)), Omitted))

cluster_node_ip_return ==
    /\ pc = "cluster_node_ip_52"
    /\ api_request' \in NodeResponses
    /\ IF HasNodeIps(api_request')
       THEN Return(PyList(NodeIpList(api_request'.v.data, <<>>)))
       ELSE \* KeyError
            /\ pc' = "done"
            /\ outcome' = "raised"
            /\ UNCHANGED ret
    /\ UNCHANGED <<call, trace, exit_msg, vm_id, stdout>>

(***************************************************************************)
(* bootstrap                                                               *)
(***************************************************************************)
NoExit == ""

\* the validation without its last check, of ntp_servers
BootstrapExitNoNtpCheck(node_config, dns_search_domains, dns_nameservers, ntp_servers) ==
    IF node_config.t = "None" \/ node_config.t # "dict"
    THEN "Error: You must provide a valid dictionary for \"node_config\"."
    ELSE IF dns_search_domains.t # "None" /\ dns_search_domains.t # "list"
    THEN "Error: You must provide a valid list for \"dns_search_domains\"."
    ELSE IF dns_nameservers.t # "None" /\ dns_nameservers.t # "list"
    THEN "Error: You must provide a valid list for \"dns_nameservers\"."
    ELSE NoExit

\* the validation with `not node_config` in place of `node_config is None`
BootstrapExitRejectsEmpty(node_config, dns_search_domains, dns_nameservers, ntp_servers) ==
    IF node_config.t # "dict" \/ node_config.v = <<>>
    THEN "Error: You must provide a valid dictionary for \"node_config\"."
    ELSE IF dns_search_domains.t # "None" /\ dns_search_domains.t # "list"
    THEN "Error: You must provide a valid list for \"dns_search_domains\"."
    ELSE IF dns_nameservers.t # "None" /\ dns_nameservers.t # "list"
    THEN "Error: You must provide a valid list for \"dns_nameservers\"."
    ELSE IF ntp_servers.t # "None" /\ ntp_servers.t # "list"
    THEN "Error: You must provide a valid list for \"ntp_servers\"."
    ELSE NoExit

\* the validation of lines 83-99: the message of the first sys.exit reached
BootstrapExit(node_config, dns_search_domains, dns_nameservers, ntp_servers) ==
    IF node_config.t = "None" \/ node_config.t # "dict"
    THEN "Error: You must provide a valid dictionary for \"node_config\"."
    ELSE IF dns_search_domains.t # "None" /\ dns_search_domains.t # "list"
    THEN "Error: You must provide a valid list for \"dns_search_domains\"."
    ELSE IF dns_nameservers.t # "None" /\ dns_nameservers.t # "list"
    THEN "Error: You must provide a valid list for \"dns_nameservers\"."
    ELSE IF ntp_servers.t # "None" /\ ntp_servers.t # "list"
    THEN "Error: You must provide a valid list for \"ntp_servers\"."
    ELSE NoExit

\* the default is never assigned
OrDefaultForgotten(x, default) == x

\* if x is None: x = default
OrDefault(x, default) == IF x.t = "None" THEN default ELSE x

\* netmask and gateway assigned to each other's key
ManagementIpConfigSwapped(management_subnet_mask, management_gateway, node_ip) ==
    [managementIpConfig |->
        [netmask |-> management_gateway,
         gateway |-> management_subnet_mask,
         address |-> node_ip]]

ManagementIpConfig(management_subnet_mask, management_gateway, node_ip) ==
    [managementIpConfig |->
        [netmask |-> management_subnet_mask,
         gateway |-> management_gateway,
         address |-> node_ip]]

\* for node_name, node_ip in node_config.items(): ...
RECURSIVE NodeConfigs(_, _, _, _)
NodeConfigs(items, management_subnet_mask, management_gateway, nodeConfigs) ==
    IF items = <<>>
    THEN nodeConfigs
    ELSE NodeConfigs(Tail(items), management_subnet_mask, management_gateway,
            DictSet(nodeConfigs, Head(items)[1],
                ManagementIpConfig(management_subnet_mask, management_gateway,
                                   Head(items)[2])))

\* password and emailAddress assigned to each other's key
AdminUserInfoSwapped(admin_email, admin_password) ==
    [password |-> admin_email, emailAddress |-> admin_password, id |-> "admin"]

AdminUserInfo(admin_email, admin_password) ==
    [password |-> admin_password, emailAddress |-> admin_email, id |-> "admin"]

BootstrapConfig(a) ==
    [enableSoftwareEncryptionAtRest |-> Param(a.enable_encryption, PyBool(TRUE)),
     name |-> a.cluster_name,
     dnsNameservers |-> OrDefault(Param(a.dns_nameservers, None), PyList(<<"8.8.8.8">>)),
     dnsSearchDomains |-> OrDefault(Param(a.dns_search_domains, None), PyList(<<>>)),
     ntpServers |-> OrDefault(Param(a.ntp_servers, None), PyList(<<"pool.ntp.org">>)),
     adminUserInfo |-> AdminUserInfo(a.admin_email, a.admin_password),
     nodeConfigs |-> PyDict(NodeConfigs(a.node_config.v, a.management_subnet_mask,
                                        a.management_gateway, <<>>))]

BootstrapArgs ==
    [cluster_name : {"cluster-a"},
     admin_email : {"admin@example.com"},
     admin_password : {"s3cret"},
     management_gateway : {"10.0.0.254"},
     management_subnet_mask : {"255.255.255.0"},
     enable_encryption : {Omitted, PyBool(FALSE)},
     node_config : NodeConfigArgs,
     dns_search_domains : ListArgs({"example.com"}) \cup {None},
     dns_nameservers : ListArgs({"8.8.4.4"}),
     ntp_servers : ListArgs({"time.example.com"}),
     timeout : Timeouts]

bootstrap ==
    /\ pc = "idle"
    /\ \E a \in BootstrapArgs :
        /\ Begin("bootstrap", a)
        /\ LET msg == BootstrapExit(Param(a.node_config, None),
                                    Param(a.dns_search_domains, None),
                                    Param(a.dns_nameservers, None),
                                    Param(a.ntp_servers, None))
           IN IF msg # NoExit
              THEN Exit(msg)
              ELSE Request("bootstrap_122",
                           Post("internal", "/cluster/me/bootstrap", BootstrapConfig(a),
                                Param(a.timeout, PyInt(15)), PyBool(FALSE)))

bootstrap_return ==
    /\ pc = "bootstrap_122"
    /\ api_request' \in Responses
    /\ Return(api_request')
    /\ UNCHANGED <<call, trace, exit_msg, vm_id, stdout>>

(***************************************************************************)
(* bootstrap_status                                                        *)
(***************************************************************************)
RequestIds == {Omitted, PyStr("42"), PyInt(17)}

bootstrap_status ==
    /\ pc = "idle"
    /\ \E request_id \in RequestIds, timeout \in Timeouts :
        /\ Begin("bootstrap_status", [request_id |-> request_id, timeout |-> timeout])
        /\ LET bootstrap_status_api_endpoint ==
                   "/cluster/me/bootstrap?request_id=" \o Format(Param(request_id, PyStr("1")))
           IN Request("bootstrap_status_143",
                      Get("internal", bootstrap_status_api_endpoint,
                          Param(timeout, PyInt(15)), PyBool(FALSE)))

bootstrap_status_return ==
    /\ pc = "bootstrap_status_143"
    /\ api_request' \in Responses
    /\ Return(api_request')
    /\ UNCHANGED <<call, trace, exit_msg, vm_id, stdout>>

(***************************************************************************)
(* end_user_authorization                                                  *)
(***************************************************************************)
\* the allowed set with a second object type
valid_object_type_wider == <<"vmware", "hyperv">>

valid_object_type == <<"vmware">>

ObjectTypes == {Omitted, PyStr("vmware"), PyStr("hyperv")}
ObjectNames == {PyStr("vm01"), PyStr("vm02")}
EndUsers == {PyStr("jdoe"), PyStr("asmith")}

\* what the transport's object_id lookup may answer
ObjectIds == {PyStr("VirtualMachine:::vm-101")}

InList(x, list) == \E i \in DOMAIN list : list[i] = x

end_user_authorization ==
    /\ pc = "idle"
    /\ \E object_name \in ObjectNames, end_user \in EndUsers,
          object_type \in ObjectTypes, timeout \in Timeouts :
        /\ Begin("end_user_authorization",
                 [object_name |-> object_name, end_user |-> end_user,
                  object_type |-> object_type, timeout |-> timeout])
        /\ IF ~InList(Param(object_type, PyStr("vmware")).v, valid_object_type)
           THEN Exit("Error: The end_user_authorization() object_type argument must be one of the following: ['vmware'].")
           ELSE Request("end_user_authorization_156",
                        ObjectId(object_name, Param(object_type, PyStr("vmware"))))

\* the user lookup recorded ahead of the object_id lookup
end_user_authorization_user_first ==
    /\ pc = "end_user_authorization_156"
    /\ \E id \in ObjectIds : vm_id' = id
    /\ trace' = <<Get("internal", "/user?username=" \o Format(call.args.end_user),
                      Omitted, Omitted)>> \o trace
    /\ pc' = "end_user_authorization_159"
    /\ UNCHANGED <<call, ret, outcome, exit_msg, api_request, stdout>>

\* object_id has returned: vm_id is set and the user is looked up
end_user_authorization_user ==
    /\ pc = "end_user_authorization_156"
    /\ \E id \in ObjectIds : vm_id' = id
    /\ trace' = Append(trace,
                       Get("internal", "/user?username=" \o Format(call.args.end_user),
                           Omitted, Omitted))
    /\ pc' = "end_user_authorization_159"
    /\ UNCHANGED <<call, ret, outcome, exit_msg, api_request, stdout>>

\* the GET has returned: print(user_id), and the function ends without a return
end_user_authorization_return ==
    /\ pc = "end_user_authorization_159"
    /\ \E user_id \in Responses : stdout' = user_id
    /\ Return(None)
    /\ UNCHANGED <<call, trace, exit_msg, api_request, vm_id>>

(***************************************************************************)
(* The transport raises instead of answering: nothing here catches it.     *)
(***************************************************************************)
Waiting ==
    {"cluster_version_38", "cluster_node_ip_52", "bootstrap_122", "bootstrap_status_143",
     "end_user_authorization_156", "end_user_authorization_159"}

transport_raises ==
    /\ pc \in Waiting
    /\ pc' = "done"
    /\ outcome' = "raised"
    /\ UNCHANGED <<call, trace, ret, exit_msg, api_request, vm_id, stdout>>

(***************************************************************************)
(* The caller has the result (or the exception) of a call and goes on:     *)
(* nothing of the call is kept but what it printed.                        *)
(***************************************************************************)
caller_continues ==
    /\ pc = "done"
    /\ pc' = "idle"
    /\ call' = [op |-> "none"]
    /\ trace' = <<>>
    /\ ret' = Omitted
    /\ outcome' = "none"
    /\ api_request' = Omitted
    /\ vm_id' = Omitted
    /\ UNCHANGED <<exit_msg, stdout>>

Next ==
    \/ cluster_version
    \/ cluster_version_return
    \/ cluster_node_ip
    \/ cluster_node_ip_return
    \/ bootstrap
    \/ bootstrap_return
    \/ bootstrap_status
    \/ bootstrap_status_return
    \/ end_user_authorization
    \/ end_user_authorization_user
    \/ end_user_authorization_return
    \/ transport_raises
    \/ caller_continues

Spec == Init /\ [][Next]_vars

(***************************************************************************)
(* The properties.                                                         *)
(***************************************************************************)
\* the arguments of a bootstrap call pass validation: node_config is a dict and each
\* of the three lists is left out, None or a list
IsListOrUnset(arg) == arg.t \in {"omitted", "None", "list"}

PassesValidation(a) ==
    /\ a.node_config.t = "dict"
    /\ IsListOrUnset(a.dns_search_domains)
    /\ IsListOrUnset(a.dns_nameservers)
    /\ IsListOrUnset(a.ntp_servers)

\* the one request of the current call is the POST to the bootstrap endpoint
PostedBootstrap ==
    /\ Len(trace) = 1
    /\ trace[1].method = "post"
    /\ trace[1].api_version = "internal"
    /\ trace[1].endpoint = "/cluster/me/bootstrap"

\* C1: in a bootstrap call whose arguments pass validation, the configuration
\* posted has a nodeConfigs mapping with exactly the keys of node_config, and under
\* each key a managementIpConfig with the given netmask and gateway and that
\* node's address.
C1_NodeConfigsMirrorNodeConfig ==
    (call.op = "bootstrap" /\ PassesValidation(call.args)) =>
        /\ PostedBootstrap
        /\ LET node_config == call.args.node_config.v
               nodeConfigs == trace[1].config.nodeConfigs.v
           IN /\ DictKeys(nodeConfigs) = DictKeys(node_config)
              /\ Len(nodeConfigs) = Len(node_config)
              /\ \A k \in DictKeys(node_config) :
                    DictGet(nodeConfigs, k).managementIpConfig =
                        [netmask |-> call.args.management_subnet_mask,
                         gateway |-> call.args.management_gateway,
                         address |-> DictGet(node_config, k)]

\* a bootstrap call with two nodes at different addresses has posted
C1_Witness ==
    /\ call.op = "bootstrap"
    /\ pc = "bootstrap_122"
    /\ call.args.node_config.t = "dict"
    /\ Len(call.args.node_config.v) = 2
    /\ call.args.node_config.v[1][2] # call.args.node_config.v[2][2]

C3_EmptyNodeConfigExits ==
    (call.op = "bootstrap" /\ call.args.node_config.t = "dict"
        /\ call.args.node_config.v = <<>>) =>
        /\ pc = "exited"
        /\ exit_msg # NoExit
        /\ trace = <<>>

\* C3 amended: bootstrap validates that node_config is a mapping.  Left out, None
\* or no mapping, the process terminates with the node_config message and nothing
\* is posted; an empty mapping passes, and with the list arguments valid the POST
\* is issued with an empty nodeConfigs.
C3_NodeConfigMustBeMapping ==
    call.op = "bootstrap" =>
        /\ call.args.node_config.t # "dict" =>
            /\ pc = "exited"
            /\ exit_msg = "Error: You must provide a valid dictionary for \"node_config\"."
            /\ trace = <<>>
        /\ (PassesValidation(call.args) /\ call.args.node_config.v = <<>>) =>
            /\ pc # "exited"
            /\ PostedBootstrap
            /\ trace[1].config.nodeConfigs = PyDict(<<>>)

\* a bootstrap call with an empty node_config waits for the answer to its POST
C3_Witness ==
    /\ call.op = "bootstrap"
    /\ pc = "bootstrap_122"
    /\ call.args.node_config.t = "dict"
    /\ call.args.node_config.v = <<>>

\* C4: in every valid bootstrap call, whatever came before it, the configuration
\* sent has dnsNameservers ["8.8.8.8"], ntpServers ["pool.ntp.org"] and
\* dnsSearchDomains [] for the ones left out, and exactly the supplied list for
\* the ones supplied as a list.
C4_DefaultsAndSuppliedLists ==
    (call.op = "bootstrap" /\ PassesValidation(call.args)) =>
        /\ PostedBootstrap
        /\ LET a == call.args
               config == trace[1].config
           IN /\ a.dns_nameservers.t = "omitted" => config.dnsNameservers = PyList(<<"8.8.8.8">>)
              /\ a.ntp_servers.t = "omitted" => config.ntpServers = PyList(<<"pool.ntp.org">>)
              /\ a.dns_search_domains.t = "omitted" => config.dnsSearchDomains = PyList(<<>>)
              /\ a.dns_nameservers.t = "list" => config.dnsNameservers = a.dns_nameservers
              /\ a.ntp_servers.t = "list" => config.ntpServers = a.ntp_servers
              /\ a.dns_search_domains.t = "list" => config.dnsSearchDomains = a.dns_search_domains

\* after an earlier call has completed and printed, a bootstrap call with
\* dns_nameservers left out and a non-empty ntp_servers list has posted
C4_Witness ==
    /\ call.op = "bootstrap"
    /\ pc = "bootstrap_122"
    /\ stdout.t = "json"
    /\ call.args.dns_nameservers.t = "omitted"
    /\ call.args.ntp_servers.t = "list"
    /\ call.args.ntp_servers.v # <<>>

\* C5: when the answer's data is a sequence of entries each with an ipAddress,
\* cluster_node_ip returns the sequence of those addresses, same length, same
\* order, duplicates kept, after exactly one GET on internal /cluster/me/node.
C5_NodeIpsInOrder ==
    call.op = "cluster_node_ip" =>
        /\ Len(trace) = 1
        /\ trace[1].method = "get"
        /\ trace[1].api_version = "internal"
        /\ trace[1].endpoint = "/cluster/me/node"
        /\ (pc = "done" /\ api_request.t = "json" /\ HasNodeIps(api_request)) =>
            /\ outcome = "returned"
            /\ ret.t = "list"
            /\ Len(ret.v) = Len(api_request.v.data)
            /\ \A i \in DOMAIN ret.v : ret.v[i] = api_request.v.data[i].ipAddress

\* cluster_node_ip has returned for an answer of two nodes at different addresses
C5_Witness ==
    /\ call.op = "cluster_node_ip"
    /\ outcome = "returned"
    /\ Len(api_request.v.data) = 2
    /\ api_request.v.data[1].ipAddress # api_request.v.data[2].ipAddress

\* C6: an end_user_authorization call whose object_type is not in ["vmware"]
\* terminates the process, and neither the object_id lookup nor the GET on /user
\* is issued in it.
C6_BadObjectTypeExitsWithoutRequest ==
    (call.op = "end_user_authorization" /\ call.args.object_type.t = "str"
        /\ call.args.object_type.v \notin {"vmware"}) =>
        /\ pc = "exited"
        /\ outcome = "exited"
        /\ trace = <<>>

\* end_user_authorization was called with object_type "hyperv"
C6_Witness ==
    /\ call.op = "end_user_authorization"
    /\ call.args.object_type = PyStr("hyperv")
    /\ pc = "exited"

\* C7: bootstrap_status issues exactly one request, a GET without authentication
\* on internal /cluster/me/bootstrap?request_id=<id>, <id> being "1" when
\* request_id is left out and the caller's value otherwise, and returns the
\* transport's answer unchanged.
C7_BootstrapStatusRequest ==
    call.op = "bootstrap_status" =>
        /\ Len(trace) = 1
        /\ trace[1].method = "get"
        /\ trace[1].api_version = "internal"
        /\ trace[1].authentication = PyBool(FALSE)
        /\ LET request_id == call.args.request_id
           IN /\ request_id.t = "omitted" =>
                    trace[1].endpoint = "/cluster/me/bootstrap?request_id=1"
              /\ request_id.t = "str" =>
                    trace[1].endpoint = "/cluster/me/bootstrap?request_id=" \o request_id.v
              /\ (request_id.t = "int" /\ request_id.v = 17) =>
                    trace[1].endpoint = "/cluster/me/bootstrap?request_id=17"
        /\ outcome = "returned" => (ret = api_request /\ api_request.t = "json")

\* bootstrap_status has returned for a request_id given as a string
C7_Witness ==
    /\ call.op = "bootstrap_status"
    /\ outcome = "returned"
    /\ call.args.request_id.t = "str"

\* C8: a bootstrap call that passes validation issues exactly one request, a POST
\* without authentication on internal /cluster/me/bootstrap carrying the name,
\* the encryption flag and adminUserInfo (id "admin", the given email and
\* password), and returns the transport's answer unchanged.
C8_BootstrapPost ==
    (call.op = "bootstrap" /\ PassesValidation(call.args)) =>
        /\ PostedBootstrap
        /\ trace[1].authentication = PyBool(FALSE)
        /\ LET a == call.args
               config == trace[1].config
           IN /\ config.name = a.cluster_name
              /\ config.enableSoftwareEncryptionAtRest =
                    (IF a.enable_encryption.t = "omitted" THEN PyBool(TRUE)
                     ELSE a.enable_encryption)
              /\ config.adminUserInfo =
                    [id |-> "admin", emailAddress |-> a.admin_email,
                     password |-> a.admin_password]
        /\ outcome = "returned" => (ret = api_request /\ api_request.t = "json")

\* a bootstrap call with encryption switched off has returned
C8_Witness ==
    /\ call.op = "bootstrap"
    /\ outcome = "returned"
    /\ call.args.enable_encryption = PyBool(FALSE)

\* C9 as stated: every get and post recorded carries the timeout the caller passed
\* to the operation that issued it, 15 when the caller left it out.  A request
\* issued with no timeout argument is taken to carry the call's timeout only when
\* the caller passed none either.
C9_RequestsCarryCallTimeout ==
    \A i \in DOMAIN trace :
        trace[i].method \in {"get", "post"} =>
            IF trace[i].timeout.t = "omitted"
            THEN call.args.timeout.t = "omitted"
            ELSE trace[i].timeout =
                    (IF call.args.timeout.t = "omitted" THEN PyInt(15)
                     ELSE call.args.timeout)

\* C10: an end_user_authorization call with an allowed object_type first looks
\* up the object_id of (object_name, object_type) and, only once that has
\* returned, issues the GET on internal /user?username=<end_user>; the call then
\* completes with no return value.
C10_LookupThenUserGet ==
    (call.op = "end_user_authorization" /\ pc # "exited") =>
        LET a == call.args
            lookup == [method |-> "object_id", object_name |-> a.object_name,
                       object_type |-> PyStr("vmware")]
            IsUserGet(r) ==
                /\ r.method = "get"
                /\ r.api_version = "internal"
                /\ r.endpoint = "/user?username=" \o a.end_user.v
        IN /\ Len(trace) \in {1, 2}
           /\ trace[1] = lookup
           /\ Len(trace) = 2 => (IsUserGet(trace[2]) /\ vm_id.t = "str")
           /\ pc = "end_user_authorization_156" => (Len(trace) = 1 /\ vm_id.t = "omitted")
           /\ pc = "end_user_authorization_159" => Len(trace) = 2
           /\ outcome = "returned" => (Len(trace) = 2 /\ ret = None)

\* end_user_authorization has completed
C10_Witness ==
    /\ call.op = "end_user_authorization"
    /\ outcome = "returned"
    /\ stdout.t = "json"
====
